---------------------------- MODULE Spec2Model ----------------------------
(***************************************************************************)
(* A model of SAR.py (ibrewster/TerraSAR-X): the per-scene loop of main(), *)
(* the crop planning, pivot rotation and scale bar of gen_cropped_png and  *)
(* rotate_dataset, and the layout arithmetic of add_annotations and        *)
(* add_north.                                                              *)
(*                                                                         *)
(* Numbers.  Python floats are modelled as exact rationals <<n, d>> in     *)
(* lowest terms with d > 0, so every equality below is equality of real    *)
(* numbers; rounding error of IEEE doubles is outside the model.  Angles   *)
(* are whole degrees that are multiples of 90, where sine and cosine are   *)
(* rational.                                                               *)
(***************************************************************************)
EXTENDS Integers, Sequences, FiniteSets, TLC

VARIABLES
    \* ---- main(): the loop over zip(packages, ids)
    ids,          \* the message ids returned by get_messages, in order
    idx,          \* position of the loop in ids (Len(ids) + 1 when exhausted)
    pc,           \* the statement main() is about to execute for ids[idx]
    labels,       \* message id -> "INBOX" | "filed_ok" | "filed_failed"
    failed_at,    \* message id -> the stage that raised for it, or "none"
    \* ---- the scene being processed
    meta,         \* the meta dict as it is now
    meta0,        \* the meta dict as get_img_metadata returned it
    ds,           \* the open raster: geotransform and pixel dimensions
    bounds,       \* proj_cropped_bounds of gen_cropped_png
    tb_calls,     \* rectangles handed to TransformBounds for this scene
    warp_gt,      \* the geotransform gdal.Warp read in gen_cropped_png
    scale_in,     \* meta['size'] as read by the scale bar computation
    scale,        \* [length, unit] of the scale bar
    log,          \* the steps executed for this scene, in order
    \* ---- add_annotations / add_north
    img_width,    \* width in pixels of the rendered PNG
    composed,     \* composition steps drawn on the in-memory image so far
    saved,        \* ids whose annotated image was written by img.save
    archived,     \* ids whose annotated image was copied to the cropped archive
    posted,       \* ids whose annotated image was posted to the chat
    margin,       \* the local variable margin of add_annotations
    title_pos,    \* (text_left, text_top) of the title
    north,        \* what add_north computed and where it pasted
    svg_size,     \* (width, height) of NorthArrow.svg
    \* ---- the font size search of add_annotations
    font,         \* [k, d]: the measured title width at size n is (k * n) \div d
    font_size,
    text_width,
    font_pc,      \* "idle" | "loop" | "done"
    \* ---- repeated calls of rotate_dataset on one dataset
    rot_gt0,      \* the geotransform before the first call
    rot_prev,     \* the geotransform before the last call
    rot_point,    \* the projected pivot handed to every call
    rot_hist,     \* the angles handed to the calls so far
    rot_status,   \* "ok" | "ZeroDivisionError"
    \* ---- get_messages(): the loop over the messages found
    messages,     \* the payload of each message found; message i has id i
    msg_i,        \* position of the loop in messages
    body,         \* the local variable body: unbound, or the decoded text
    packages      \* the download URLs appended so far

mainVars  == <<ids, idx, pc, labels, failed_at>>
sceneVars == <<meta, meta0, ds, bounds, tb_calls, warp_gt, scale_in, scale, log>>
annotVars == <<img_width, composed, saved, archived, posted, margin, title_pos,
               north, svg_size>>
fontVars  == <<font, font_size, text_width, font_pc>>
rotVars   == <<rot_gt0, rot_prev, rot_point, rot_hist, rot_status>>
msgVars   == <<messages, msg_i, body, packages>>
vars      == <<mainVars, sceneVars, annotVars, fontVars, rotVars, msgVars>>

---------------------------------------------------------------------------
(* Bounds of the model. *)
NumMsgs     == 2      \* messages returned by get_messages
MaxSide     == 12500  \* largest side length handed to the scale bar alone
MaxImgWidth == 40     \* largest image width of the font size search alone
MaxSlope    == 3      \* largest k of a font's width function
MaxGlyph    == 3      \* largest width or height of the north arrow glyph
MaxCalls    == 2      \* calls of rotate_dataset on one dataset

---------------------------------------------------------------------------
(* Exact rational arithmetic standing for Python's float arithmetic. *)
Abs(x) == IF x < 0 THEN -x ELSE x

RECURSIVE Gcd(_, _)
Gcd(a, b) == IF b = 0 THEN a ELSE Gcd(b, a % b)

Norm(n, d) ==
    LET g == Gcd(Abs(n), Abs(d))
        s == IF d < 0 THEN -1 ELSE 1
    IN  <<(s * n) \div g, (s * d) \div g>>

R(i) == <<i, 1>>
RAdd(x, y) == Norm(x[1] * y[2] + y[1] * x[2], x[2] * y[2])
RNeg(x)    == <<-x[1], x[2]>>
RSub(x, y) == RAdd(x, RNeg(y))
RMul(x, y) == Norm(x[1] * y[1], x[2] * y[2])
RDiv(x, y) == Norm(x[1] * y[2], x[2] * y[1])      \* y # 0
RAbs(x)    == <<Abs(x[1]), x[2]>>
RLt(x, y)  == x[1] * y[2] < y[1] * x[2]
RLe(x, y)  == x[1] * y[2] <= y[1] * x[2]
RIsZero(x) == x[1] = 0

(* Python 3's round(x) with one argument: the nearest integer, a tie going *)
(* to the even one.                                                        *)
PyRound(x) ==
    LET f  == x[1] \div x[2]
        r2 == 2 * (x[1] - f * x[2])
    IN  IF r2 < x[2] THEN f
        ELSE IF r2 > x[2] THEN f + 1
        ELSE IF f % 2 = 0 THEN f ELSE f + 1

---------------------------------------------------------------------------
(* The affine package as rotate_dataset uses it.  An Affine is the tuple   *)
(* <<a, b, c, d, e, f>> of  x' = a x + b y + c,  y' = d x + e y + f;  a    *)
(* GDAL geotransform is <<c, a, b, f, d, e>>.  Python's gt[i] is gt[i+1].  *)
FromGdal(gt) == <<gt[2], gt[3], gt[1], gt[5], gt[6], gt[4]>>
ToGdal(m)    == <<m[3], m[1], m[2], m[6], m[4], m[5]>>

(* cos and sin of an angle in degrees, exact at every multiple of 90. *)
CosSinDeg(deg) ==
    LET q == deg % 360
    IN  IF q = 0 THEN <<R(1), R(0)>>
        ELSE IF q = 90 THEN <<R(0), R(1)>>
        ELSE IF q = 180 THEN <<R(-1), R(0)>>
        ELSE <<R(0), R(-1)>>

(* Rotation with a fault: the pivot is subtracted but never added back. *)
RotationPivotNotRestored(angle, pivot) ==
    LET cs == CosSinDeg(angle)
        ca == cs[1]
        sa == cs[2]
        px == pivot[1]
        py == pivot[2]
    IN  <<ca, RNeg(sa), RAdd(RNeg(RMul(px, ca)), RMul(py, sa)),
          sa, ca, RSub(RNeg(RMul(px, sa)), RMul(py, ca))>>

(* Affine.rotation(angle, pivot): the rotation by angle about pivot. *)
Rotation(angle, pivot) ==
    LET cs == CosSinDeg(angle)
        ca == cs[1]
        sa == cs[2]
        px == pivot[1]
        py == pivot[2]
    IN  <<ca, RNeg(sa), RAdd(RSub(px, RMul(px, ca)), RMul(py, sa)),
          sa, ca, RSub(RSub(py, RMul(px, sa)), RMul(py, ca))>>

(* Affine.__mul__: s * o applies o first, then s. *)
AffineMul(s, o) ==
    <<RAdd(RMul(s[1], o[1]), RMul(s[2], o[4])),
      RAdd(RMul(s[1], o[2]), RMul(s[2], o[5])),
      RAdd(RAdd(RMul(s[1], o[3]), RMul(s[2], o[6])), s[3]),
      RAdd(RMul(s[4], o[1]), RMul(s[5], o[4])),
      RAdd(RMul(s[4], o[2]), RMul(s[5], o[5])),
      RAdd(RAdd(RMul(s[4], o[3]), RMul(s[5], o[6])), s[6])>>

(* Affine.__mul__ on a point: the pixel (x, y) mapped by m. *)
AffineApply(m, p) ==
    <<RAdd(RAdd(RMul(m[1], p[1]), RMul(m[2], p[2])), m[3]),
      RAdd(RAdd(RMul(m[4], p[1]), RMul(m[5], p[2])), m[6])>>

(* rotate_dataset with a fault: the pivot's row is divided by the pixel    *)
(* width, gt[1], instead of the pixel height, gt[5].                       *)
RotateDatasetRowByWidth(gt, angle, point) ==
    IF RIsZero(gt[2]) \/ RIsZero(gt[6])
    THEN [status |-> "ZeroDivisionError", gt |-> gt]
    ELSE LET meters_to_rotx == RSub(point[1], gt[1])
             meters_to_roty == RSub(point[2], gt[4])
             xrot == RDiv(meters_to_rotx, gt[2])
             yrot == RDiv(meters_to_roty, gt[2])
             affine_src  == FromGdal(gt)
             affine_dest == AffineMul(affine_src, Rotation(angle, <<xrot, yrot>>))
         IN  [status |-> "ok", gt |-> ToGdal(affine_dest)]

(* rotate_dataset: the geotransform SetGeoTransform receives, or the       *)
(* ZeroDivisionError of the pivot's division, which leaves it as it was.   *)
RotateDataset(gt, angle, point) ==
    IF RIsZero(gt[2]) \/ RIsZero(gt[6])
    THEN [status |-> "ZeroDivisionError", gt |-> gt]
    ELSE LET meters_to_rotx == RSub(point[1], gt[1])
             meters_to_roty == RSub(point[2], gt[4])
             xrot == RDiv(meters_to_rotx, gt[2])
             yrot == RDiv(meters_to_roty, gt[6])
             affine_src  == FromGdal(gt)
             affine_dest == AffineMul(affine_src, Rotation(angle, <<xrot, yrot>>))
         IN  [status |-> "ok", gt |-> ToGdal(affine_dest)]

---------------------------------------------------------------------------
(* gen_cropped_png: crop bounds and scale bar. *)

(* CenteredBounds with a fault: the rectangle in (minX, minY, maxX, maxY)   *)
(* order.                                                                  *)
CenteredBoundsMinYFirst(centerx, centery, size) ==
    LET half_side == RDiv(size, R(2))
    IN  <<RSub(centerx, half_side), RSub(centery, half_side),
          RAdd(centerx, half_side), RAdd(centery, half_side)>>

CenteredBounds(centerx, centery, size) ==
    LET half_side == RDiv(size, R(2))
    IN  <<RSub(centerx, half_side), RAdd(centery, half_side),
          RAdd(centerx, half_side), RSub(centery, half_side)>>

(* The raster's own extent [x_min, y_max, x_max, y_min]. *)
FullExtentBounds(raster) ==
    LET gt    == raster.gt
        x_min == gt[1]
        y_max == gt[4]
        x_max == RAdd(x_min, RMul(gt[2], R(raster.xsize)))
        y_min == RAdd(y_max, RMul(gt[6], R(raster.ysize)))
    IN  <<x_min, y_max, x_max, y_min>>

(* FullExtentSize with a fault: the raster's height instead of its width. *)
FullExtentSizeFromHeight(b) == RSub(b[2], b[4])

(* meta['size'] of the full-extent case, from [x_min, y_max, x_max, y_min]. *)
FullExtentSize(b) == RSub(b[3], b[1])

(* ScaleBar with a fault: the boundary at 1000 goes to the meters branch. *)
ScaleBarKmAbove1000(size) ==
    LET raw == RDiv(size, R(5))
    IN  IF RLe(raw, R(1000))
        THEN [length |-> R(PyRound(RDiv(raw, R(50))) * 50), unit |-> "e"]
        ELSE [length |-> RDiv(R(PyRound(RDiv(raw, R(1000))) * 1000), R(1000)),
              unit |-> "k"]

(* The scale bar: unit "e" is meters, "k" kilometers (GMT's unit letters). *)
ScaleBar(size) ==
    LET raw == RDiv(size, R(5))
    IN  IF RLt(raw, R(1000))
        THEN [length |-> R(PyRound(RDiv(raw, R(50))) * 50), unit |-> "e"]
        ELSE [length |-> RDiv(R(PyRound(RDiv(raw, R(1000))) * 1000), R(1000)),
              unit |-> "k"]

(* gen_clean_png: the whole-image region [ulx, lry, lrx, uly]. *)
CleanRegion(raster) ==
    LET gt  == raster.gt
        ulx == gt[1]
        uly == gt[4]
        lrx == RAdd(ulx, RMul(R(raster.xsize), gt[2]))
        lry == RAdd(uly, RMul(R(raster.ysize), gt[6]))
    IN  <<ulx, lry, lrx, uly>>

---------------------------------------------------------------------------
(* add_annotations and add_north. *)

TitleMargin          == 24   \* margin = 24
MinFontSize          == 8    \* font_size = 8
NonZoomedExtraMargin == 50   \* margin += 50

(* The size of NorthArrow.svg in the pipeline. *)
NorthArrowSvg == <<2, 3>>

(* The measured title width at font size n: non-decreasing and unbounded   *)
(* in n for every font [k, d] with k, d >= 1.                              *)
TextWidth(f, n) == (f.k * n) \div f.d

(* MeetsTarget with a fault: a width equal to the target is not enough. *)
MeetsTargetStrictly(width, image_width) ==
    RLt(RDiv(R(image_width), R(3)), R(width))

(* text_width >= text_width_target, the target being a third of the image  *)
(* width.                                                                  *)
MeetsTarget(width, image_width) ==
    RLe(RDiv(R(image_width), R(3)), R(width))

(* RotatedBox with a fault: the absolute values are dropped. *)
RotatedBoxSigned(w, h, deg) ==
    LET cs == CosSinDeg(deg)
    IN  <<RAdd(RMul(w, cs[1]), RMul(h, cs[2])),
          RAdd(RMul(w, cs[2]), RMul(h, cs[1]))>>

(* The bounding box (rotated_width, rotated_height) of the rotated glyph. *)
RotatedBox(w, h, deg) ==
    LET cs == CosSinDeg(deg)
    IN  <<RAdd(RMul(w, RAbs(cs[1])), RMul(h, RAbs(cs[2]))),
          RAdd(RMul(w, RAbs(cs[2])), RMul(h, RAbs(cs[1])))>>

(* AddNorth with a fault: the paste offset is the title's margin, whatever *)
(* margin the caller hands over.                                           *)
AddNorthAtTitleMargin(size, deg, image_width, m) ==
    LET cur_width   == R(size[1])
        cur_height  == R(size[2])
        box         == RotatedBox(cur_width, cur_height, deg)
        arrow_width == RDiv(R(image_width), R(10))
        scale_factor == RDiv(arrow_width, box[1])
    IN  [rotation      |-> deg,
         rotated       |-> box,
         shift         |-> <<RDiv(RSub(box[1], cur_width), R(2)),
                             RDiv(RSub(box[2], cur_height), R(2))>>,
         scale_factor  |-> scale_factor,
         scaled        |-> <<RMul(box[1], scale_factor), RMul(box[2], scale_factor)>>,
         offset        |-> <<TitleMargin, TitleMargin>>]

(* add_north: the glyph's rotated box, its shift back to the origin, its   *)
(* scaling to a tenth of the image width, and the paste offset.            *)
AddNorth(size, deg, image_width, m) ==
    LET cur_width   == R(size[1])
        cur_height  == R(size[2])
        box         == RotatedBox(cur_width, cur_height, deg)
        arrow_width == RDiv(R(image_width), R(10))
        scale_factor == RDiv(arrow_width, box[1])
    IN  [rotation      |-> deg,
         rotated       |-> box,
         shift         |-> <<RDiv(RSub(box[1], cur_width), R(2)),
                             RDiv(RSub(box[2], cur_height), R(2))>>,
         scale_factor  |-> scale_factor,
         scaled        |-> <<RMul(box[1], scale_factor), RMul(box[2], scale_factor)>>,
         offset        |-> <<m, m>>]

(* StepAfterCopyright with a fault: the north arrow is never drawn. *)
StepAfterCopyrightNoNorth(m) == "annot_save"

(* add_annotations, after the copyright text: add_north only when the      *)
(* scene is rotated.                                                       *)
StepAfterCopyright(m) ==
    IF m.rotation # 0 THEN "annot_north" ELSE "annot_save"

---------------------------------------------------------------------------
(* The inputs of the model. *)

(* Rows of the tsx table as get_img_metadata reads them. *)
Centers   == {<<100, 200>>, <<505000, 6996000>>}
Sides     == {40, 4000, 5000, 12000}
Rotations == {0, 90, 180, -90}

DbMeta(c, side, rot, z) ==
    [volc |-> "db", centerx |-> R(c[1]), centery |-> R(c[2]), size |-> R(side),
     rotation |-> rot, zoomed |-> z]

(* The fallback of get_img_metadata when the order is not in the database. *)
FallbackMeta == [volc |-> "order", rotation |-> 0, zoomed |-> FALSE]

MetaSet ==
    {DbMeta(c, s, r, z) : c \in Centers, s \in Sides, r \in Rotations, z \in BOOLEAN}
        \cup {FallbackMeta}

(* North-up rasters: pixel size x > 0, pixel size y < 0, no skew. *)
RasterSet ==
    { [gt |-> <<R(500000), R(1), R(0), R(7000000), R(0), R(-1)>>,
       xsize |-> 10000, ysize |-> 8000],
      [gt |-> <<R(0), Norm(5, 4), R(0), R(300), R(0), Norm(-5, 4)>>,
       xsize |-> 100, ysize |-> 160] }

NoRaster == [gt |-> <<R(0), R(0), R(0), R(0), R(0), R(0)>>, xsize |-> 0, ysize |-> 0]
NoScale  == [length |-> R(0), unit |-> "none"]
NoNorth  == [rotation |-> 0, rotated |-> <<R(0), R(0)>>, shift |-> <<R(0), R(0)>>,
             scale_factor |-> R(0), scaled |-> <<R(0), R(0)>>, offset |-> <<0, 0>>]

ImgWidths  == {90, 120}
Helvetica  == [k |-> 3, d |-> 1]
Fonts      == {[k |-> k, d |-> d] : k \in 1..MaxSlope, d \in 1..MaxSlope}
GlyphSizes == (1..MaxGlyph) \X (1..MaxGlyph)

Exceptions == {"FileNotFoundError", "RuntimeError"}

---------------------------------------------------------------------------
(* main(): one action per statement group of the loop body. *)

Msg == ids[idx]

FirstPc(i) == IF i > Len(ids) THEN "finished" ELSE "download"

SceneBlank ==
    /\ meta = << >> /\ meta0 = << >> /\ ds = NoRaster /\ bounds = << >>
    /\ tb_calls = {} /\ warp_gt = << >> /\ scale_in = R(0) /\ scale = NoScale
    /\ log = << >>

SceneReset ==
    /\ meta' = << >> /\ meta0' = << >> /\ ds' = NoRaster /\ bounds' = << >>
    /\ tb_calls' = {} /\ warp_gt' = << >> /\ scale_in' = R(0) /\ scale' = NoScale
    /\ log' = << >>
    /\ img_width' = 0 /\ composed' = {} /\ margin' = 0 /\ title_pos' = <<0, 0>>
    /\ north' = NoNorth
    /\ font_size' = 0 /\ text_width' = 0 /\ font_pc' = "idle"

(* The two try blocks of main() catch FileNotFoundError only, around       *)
(* download_package with extract_files and around get_img_metadata.        *)
Caught(stage, exc) ==
    /\ stage \in {"download", "extract", "metadata"}
    /\ exc = "FileNotFoundError"

(* An exception raised by the given stage of the current scene: a caught   *)
(* one files the message as failed and continues with the next message,    *)
(* any other one leaves main().  The cropped archive is left to the caller.*)
RaiseKeeping(stage, exc) ==
    /\ failed_at' = [failed_at EXCEPT ![Msg] = stage]
    /\ IF Caught(stage, exc)
       THEN /\ labels' = [labels EXCEPT ![Msg] = "filed_failed"]
            /\ idx' = idx + 1
            /\ pc' = FirstPc(idx + 1)
            /\ SceneReset
       ELSE /\ pc' = "crashed"
            /\ UNCHANGED <<labels, idx, sceneVars, img_width, composed, margin,
                           title_pos, north, fontVars>>
    /\ UNCHANGED <<ids, saved, posted, svg_size, font, rotVars, msgVars>>

Raise(stage, exc) == RaiseKeeping(stage, exc) /\ UNCHANGED archived

Fails(stage) == \E exc \in Exceptions : Raise(stage, exc)

Goto(next) ==
    /\ pc' = next
    /\ UNCHANGED <<ids, idx, labels, failed_at>>

Download ==
    /\ pc = "download"
    /\ \/ /\ Goto("extract")
          /\ UNCHANGED <<sceneVars, annotVars, fontVars, rotVars, msgVars>>
       \/ Fails("download")

Extract ==
    /\ pc = "extract"
    /\ \/ /\ Goto("metadata")
          /\ \E r \in RasterSet : ds' = r
          /\ UNCHANGED <<meta, meta0, bounds, tb_calls, warp_gt, scale_in, scale, log,
                         annotVars, fontVars, rotVars, msgVars>>
       \/ Fails("extract")

GetImgMetadata ==
    /\ pc = "metadata"
    /\ \/ /\ Goto("zip")
          /\ \E m \in MetaSet : meta' = m /\ meta0' = m
          /\ UNCHANGED <<ds, bounds, tb_calls, warp_gt, scale_in, scale, log,
                         annotVars, fontVars, rotVars, msgVars>>
       \/ Fails("metadata")

ArchiveZip ==
    /\ pc = "zip"
    /\ \/ /\ Goto("clean")
          /\ UNCHANGED <<sceneVars, annotVars, fontVars, rotVars, msgVars>>
       \/ Fails("zip")

GenCleanPng ==
    /\ pc = "clean"
    /\ \/ /\ Goto("crop")
          /\ tb_calls' = tb_calls \cup {[fn |-> "gen_clean_png", rect |-> CleanRegion(ds)]}
          /\ log' = Append(log, "clean")
          /\ UNCHANGED <<meta, meta0, ds, bounds, warp_gt, scale_in, scale,
                         annotVars, fontVars, rotVars, msgVars>>
       \/ Fails("clean")

(* gen_cropped_png up to TransformBounds: the crop bounds of either case. *)
(* MetaAfterCrop with a fault: the raster's width is recorded as the size  *)
(* of every scene, centered or not.                                        *)
MetaAfterCropAlwaysSized(m, raster) ==
    [k \in DOMAIN m \cup {"size"} |->
        IF k = "size" THEN FullExtentSize(FullExtentBounds(raster)) ELSE m[k]]

(* The meta dict after gen_cropped_png's try/except: a scene without a     *)
(* size gets meta['size'] = x_max - x_min, any other is left alone.        *)
MetaAfterCrop(m, raster) ==
    IF "size" \in DOMAIN m
    THEN m
    ELSE [k \in DOMAIN m \cup {"size"} |->
            IF k = "size" THEN FullExtentSize(FullExtentBounds(raster)) ELSE m[k]]

PlanCrop ==
    /\ pc = "crop"
    /\ \/ /\ Goto("rotate")
          /\ IF "size" \in DOMAIN meta
             THEN bounds' = CenteredBounds(meta.centerx, meta.centery, meta.size)
             ELSE bounds' = FullExtentBounds(ds)
          /\ meta' = MetaAfterCrop(meta, ds)
          /\ tb_calls' = tb_calls \cup {[fn |-> "gen_cropped_png", rect |-> bounds']}
          /\ log' = Append(log, "bounds")
          /\ UNCHANGED <<meta0, ds, warp_gt, scale_in, scale, annotVars, fontVars, rotVars, msgVars>>
       \/ Fails("crop")

(* NeedsRotation with a fault: every scene that has a crop center is       *)
(* rotated.                                                                *)
NeedsRotationWhenCentered(m) == "centerx" \in DOMAIN m

(* if meta['rotation'] != 0 *)
NeedsRotation(m) == m.rotation # 0

RotateStep ==
    /\ pc = "rotate"
    /\ IF ~NeedsRotation(meta)
       THEN /\ Goto("warp")
            /\ UNCHANGED <<sceneVars, annotVars, fontVars, rotVars, msgVars>>
       ELSE LET r == RotateDataset(ds.gt, meta.rotation, <<meta.centerx, meta.centery>>)
            IN  IF r.status = "ok"
                THEN /\ Goto("warp")
                     /\ ds' = [ds EXCEPT !.gt = r.gt]
                     /\ log' = Append(log, "rotate")
                     /\ UNCHANGED <<meta, meta0, bounds, tb_calls, warp_gt, scale_in,
                                    scale, annotVars, fontVars, rotVars, msgVars>>
                ELSE Raise("rotate", r.status)

Warp ==
    /\ pc = "warp"
    /\ \/ /\ Goto("scale_bar")
          /\ warp_gt' = ds.gt
          /\ log' = Append(log, "warp")
          /\ UNCHANGED <<meta, meta0, ds, bounds, tb_calls, scale_in, scale,
                         annotVars, fontVars, rotVars, msgVars>>
       \/ Fails("warp")

ScaleBarStep ==
    /\ pc = "scale_bar"
    /\ Goto("render")
    /\ scale_in' = meta.size
    /\ scale' = ScaleBar(meta.size)
    /\ UNCHANGED <<meta, meta0, ds, bounds, tb_calls, warp_gt, log,
                   annotVars, fontVars, rotVars, msgVars>>

Render ==
    /\ pc = "render"
    /\ \/ /\ Goto("tiles")
          /\ \E w \in ImgWidths : img_width' = w
          /\ UNCHANGED <<sceneVars, composed, saved, archived, posted, margin,
                         title_pos, north, svg_size, fontVars, rotVars, msgVars>>
       \/ Fails("render")

MoveTiles ==
    /\ pc = "tiles"
    /\ \/ /\ Goto("annot_open")
          /\ UNCHANGED <<sceneVars, annotVars, fontVars, rotVars, msgVars>>
       \/ Fails("tiles")

(* add_annotations: open the image, set the margin, start the font search. *)
AnnotOpen ==
    /\ pc = "annot_open"
    /\ \/ /\ Goto("annot_font")
          /\ margin' = TitleMargin
          /\ composed' = {}
          /\ font_size' = MinFontSize
          /\ font_pc' = "loop"
          /\ UNCHANGED <<sceneVars, img_width, saved, archived, posted, title_pos,
                         north, svg_size, font, text_width, rotVars, msgVars>>
       \/ Fails("annot_open")

(* One iteration of the while True loop of the font size search. *)
FontStep ==
    /\ pc = "annot_font"
    /\ font_pc = "loop"
    /\ text_width' = TextWidth(font, font_size)
    /\ IF MeetsTarget(text_width', img_width)
       THEN font_pc' = "done" /\ font_size' = font_size
       ELSE font_pc' = "loop" /\ font_size' = font_size + 1
    /\ UNCHANGED <<mainVars, sceneVars, annotVars, font, rotVars, msgVars>>

AnnotTitle ==
    /\ pc = "annot_font"
    /\ font_pc = "done"
    /\ Goto("annot_logo")
    /\ title_pos' = <<img_width - text_width - margin, margin>>
    /\ composed' = composed \cup {"title"}
    /\ UNCHANGED <<sceneVars, img_width, saved, archived, posted, margin, north,
                   svg_size, fontVars, rotVars, msgVars>>

(* The copyright block is measured, the margin is enlarged for a scene     *)
(* that is not zoomed, and the logo is pasted.                             *)
AnnotLogo ==
    /\ pc = "annot_logo"
    /\ \/ /\ Goto("annot_copyright")
          /\ margin' = IF meta.zoomed THEN margin ELSE margin + NonZoomedExtraMargin
          /\ composed' = composed \cup {"logo"}
          /\ UNCHANGED <<sceneVars, img_width, saved, archived, posted, title_pos,
                         north, svg_size, fontVars, rotVars, msgVars>>
       \/ Fails("annot_logo")

AnnotCopyright ==
    /\ pc = "annot_copyright"
    /\ Goto(StepAfterCopyright(meta))
    /\ composed' = composed \cup {"copyright"}
    /\ UNCHANGED <<sceneVars, img_width, saved, archived, posted, margin, title_pos,
                   north, svg_size, fontVars, rotVars, msgVars>>

AnnotNorth ==
    /\ pc = "annot_north"
    /\ \/ /\ Goto("annot_save")
          /\ north' = AddNorth(svg_size, meta.rotation, img_width, margin)
          /\ composed' = composed \cup {"north"}
          /\ UNCHANGED <<sceneVars, img_width, saved, archived, posted, margin,
                         title_pos, svg_size, fontVars, rotVars, msgVars>>
       \/ Fails("annot_north")

AnnotSave ==
    /\ pc = "annot_save"
    /\ \/ /\ Goto("archive")
          /\ saved' = saved \cup {Msg}
          /\ UNCHANGED <<sceneVars, img_width, composed, archived, posted, margin,
                         title_pos, north, svg_size, fontVars, rotVars, msgVars>>
       \/ Fails("annot_save")

(* os.makedirs and shutil.copy: a failure may come before anything is      *)
(* written or after shutil.copy has begun writing the archive file.        *)
ArchiveCropped ==
    /\ pc = "archive"
    /\ \/ /\ Goto("post_image")
          /\ archived' = archived \cup {Msg}
          /\ UNCHANGED <<sceneVars, img_width, composed, saved, posted, margin,
                         title_pos, north, svg_size, fontVars, rotVars, msgVars>>
       \/ \E exc \in Exceptions, copied \in BOOLEAN :
             /\ RaiseKeeping("archive", exc)
             /\ archived' = IF copied THEN archived \cup {Msg} ELSE archived

PostImage ==
    /\ pc = "post_image"
    /\ \/ /\ Goto("post_gif")
          /\ posted' = posted \cup {Msg}
          /\ UNCHANGED <<sceneVars, img_width, composed, saved, archived, margin,
                         title_pos, north, svg_size, fontVars, rotVars, msgVars>>
       \/ Fails("post_image")

PostGif ==
    /\ pc = "post_gif"
    /\ \/ /\ Goto("file")
          /\ UNCHANGED <<sceneVars, annotVars, fontVars, rotVars, msgVars>>
       \/ Fails("post_gif")

(* file_message(service, message_id): the scene completed. *)
FileMessageOk ==
    /\ pc = "file"
    /\ labels' = [labels EXCEPT ![Msg] = "filed_ok"]
    /\ idx' = idx + 1
    /\ pc' = FirstPc(idx + 1)
    /\ SceneReset
    /\ UNCHANGED <<ids, failed_at, saved, archived, posted, svg_size, font, rotVars, msgVars>>

---------------------------------------------------------------------------
(* rotate_dataset called again on the dataset it has already rewritten. *)

Angles == {-90, 0, 90, 180, 270, 360}

GeoTransforms ==
    { <<R(ox), R(a), R(b), R(20), R(d), R(e)>> :
        ox \in {0, 10}, a \in {0, 1, 2}, b \in {0, 1}, d \in {0, 1}, e \in {-2, -1, 0} }

Pivots == {<<R(0), R(0)>>, <<R(3), R(4)>>, <<R(10), R(20)>>}

RotateCall ==
    /\ pc = "rotate_calls"
    /\ Len(rot_hist) < MaxCalls
    /\ rot_status = "ok"
    /\ \E a \in Angles :
          LET r == RotateDataset(ds.gt, a, rot_point)
          IN  /\ ds' = [ds EXCEPT !.gt = r.gt]
              /\ rot_status' = r.status
              /\ rot_prev' = ds.gt
              /\ rot_hist' = Append(rot_hist, a)
    /\ UNCHANGED <<mainVars, meta, meta0, bounds, tb_calls, warp_gt, scale_in, scale,
                   log, annotVars, fontVars, rot_gt0, rot_point,
                   msgVars>>

---------------------------------------------------------------------------
(* get_messages: the mail bodies and the URL pattern. *)

MaxInbox == 2

(* A body is a sequence of lines; a line is its leading whitespace and its *)
(* text.                                                                   *)
Line(indent, text) == [indent |-> indent, text |-> text]

Urls == {"ftps://a.tar.gz", "ftps://b.tar.gz"}

Prose     == Line(FALSE, "Dear user, your order is ready:")
BlankLine == Line(FALSE, "")

(* The URL on an indented line, the URL after a blank line, and a URL at   *)
(* the start of a line that follows a line of text.                        *)
BodyIndented   == <<Prose, Line(TRUE, "ftps://a.tar.gz")>>
BodyAfterBlank == <<Prose, BlankLine, Line(FALSE, "ftps://b.tar.gz")>>
BodyFlushLeft  == <<Prose, Line(FALSE, "ftps://a.tar.gz")>>

(* re.compile(r"\n\s+(ftps:\/\/.+.tar.gz)") matches at line i when a line  *)
(* break and at least one more whitespace character precede the URL: the   *)
(* line is indented and not the first, or the line before it is empty and  *)
(* not the first.                                                          *)
MatchesAt(text, i) ==
    /\ i >= 2
    /\ text[i].text \in Urls
    /\ \/ text[i].indent
       \/ (i >= 3 /\ text[i - 1].text = "")

(* url_pattern.search(text): group(1) of the first match, or None. *)
UrlSearch(text) ==
    IF \E i \in 1..Len(text) : MatchesAt(text, i)
    THEN LET i == CHOOSE j \in 1..Len(text) :
                     /\ MatchesAt(text, j)
                     /\ \A k \in 1..(j - 1) : ~MatchesAt(text, k)
         IN  text[i].text
    ELSE "None"

(* The body of a payload or of a part as the mail API returns it: its size *)
(* and, when not empty, its data in URL-safe base64.                       *)
B64Encode(text) == [b64 |-> text]
UrlSafeB64Decode(data) == data.b64

EmptyBody     == [size |-> 0]
FullBody(text) == [size |-> Len(text), data |-> B64Encode(text)]

Payloads ==
    LET tops  == {EmptyBody, FullBody(BodyIndented), FullBody(BodyFlushLeft)}
        parts == {[mimeType |-> "multipart/alternative"],
                  [mimeType |-> "text/plain", body |-> EmptyBody],
                  [mimeType |-> "text/plain", body |-> FullBody(BodyAfterBlank)]}
    IN  {[body |-> t] : t \in tops}
        \cup {[body |-> t, parts |-> <<q>>] : t \in tops, q \in parts}

Unbound     == [bound |-> FALSE]
Bound(text) == [bound |-> TRUE, text |-> text]

(* msg["payload"]["parts"][0].get("body", {"size": 0}) *)
PartBody(part) == IF "body" \in DOMAIN part THEN part.body ELSE EmptyBody

(* The text the if/elif of get_messages decodes from one message, if any. *)
OwnBody(payload) ==
    IF payload.body.size > 0
    THEN Bound(UrlSafeB64Decode(payload.body.data))
    ELSE IF "parts" \in DOMAIN payload /\ PartBody(payload.parts[1]).size > 0
         THEN Bound(UrlSafeB64Decode(payload.parts[1].body.data))
         ELSE Unbound

(* The variable body after the if/elif, which has no else: a message with  *)
(* no text leaves body as the previous iteration left it.                  *)
BodyAfterIf(payload, before) ==
    IF OwnBody(payload).bound THEN OwnBody(payload) ELSE before

(* One iteration of the for loop of get_messages. *)
GetMessagesStep ==
    /\ pc = "get_messages"
    /\ msg_i <= Len(messages)
    /\ LET message_id == msg_i
           now == BodyAfterIf(messages[msg_i], body)
       IN  IF ~now.bound
           THEN \* url_pattern.search(body) raises UnboundLocalError
                /\ pc' = "crashed"
                /\ UNCHANGED <<ids, msg_i, body, packages>>
           ELSE /\ pc' = pc
                /\ body' = now
                /\ msg_i' = msg_i + 1
                /\ IF UrlSearch(now.text) = "None"
                   THEN UNCHANGED <<ids, packages>>
                   ELSE /\ packages' = Append(packages, UrlSearch(now.text))
                        /\ ids' = Append(ids, message_id)
    /\ UNCHANGED <<idx, labels, failed_at, messages, sceneVars, annotVars, fontVars,
                   rotVars>>

(* return (packages, ids) *)
GetMessagesReturn ==
    /\ pc = "get_messages"
    /\ msg_i > Len(messages)
    /\ pc' = "messages_returned"
    /\ UNCHANGED <<ids, idx, labels, failed_at, sceneVars, annotVars, fontVars,
                   rotVars, msgVars>>

---------------------------------------------------------------------------
(* Specifications. *)

MainIdle ==
    /\ ids = <<1>> /\ idx = 1
    /\ labels = [m \in {1} |-> "INBOX"]
    /\ failed_at = [m \in {1} |-> "none"]

AnnotIdle ==
    /\ img_width = 0 /\ composed = {} /\ saved = {} /\ archived = {} /\ posted = {}
    /\ margin = 0 /\ title_pos = <<0, 0>> /\ north = NoNorth

FontIdle ==
    /\ font = Helvetica /\ font_size = 0 /\ text_width = 0 /\ font_pc = "idle"

RotIdle ==
    /\ rot_gt0 = NoRaster.gt /\ rot_prev = NoRaster.gt /\ rot_point = <<R(0), R(0)>>
    /\ rot_hist = << >> /\ rot_status = "ok"

MsgIdle ==
    /\ messages = << >> /\ msg_i = 1 /\ body = Unbound /\ packages = << >>

(* main() after get_messages and connect_to_mattermost. *)
Init ==
    /\ \E n \in 0..NumMsgs : ids = [i \in 1..n |-> i]
    /\ idx = 1
    /\ pc = FirstPc(1)
    /\ labels = [m \in 1..Len(ids) |-> "INBOX"]
    /\ failed_at = [m \in 1..Len(ids) |-> "none"]
    /\ SceneBlank
    /\ AnnotIdle /\ svg_size = NorthArrowSvg
    /\ FontIdle
    /\ RotIdle
    /\ MsgIdle

Next ==
    \/ Download \/ Extract \/ GetImgMetadata \/ ArchiveZip \/ GenCleanPng
    \/ PlanCrop \/ RotateStep \/ Warp \/ ScaleBarStep \/ Render \/ MoveTiles
    \/ AnnotOpen \/ FontStep \/ AnnotTitle \/ AnnotLogo \/ AnnotCopyright
    \/ AnnotNorth \/ AnnotSave \/ ArchiveCropped \/ PostImage \/ PostGif
    \/ FileMessageOk

Spec == Init /\ [][Next]_vars

(* The scale bar computation alone, for every side length up to MaxSide. *)
InitScale ==
    /\ MainIdle /\ pc = "scale_bar"
    /\ \E s \in 1..MaxSide : meta = DbMeta(<<100, 200>>, s, 0, TRUE)
    /\ meta0 = meta
    /\ ds = NoRaster /\ bounds = << >> /\ tb_calls = {} /\ warp_gt = << >>
    /\ scale_in = R(0) /\ scale = NoScale /\ log = << >>
    /\ AnnotIdle /\ svg_size = NorthArrowSvg
    /\ FontIdle
    /\ RotIdle
    /\ MsgIdle

SpecScale == InitScale /\ [][ScaleBarStep]_vars

(* The font size search alone, for every font and image width. *)
InitFont ==
    /\ MainIdle /\ pc = "annot_font"
    /\ SceneBlank
    /\ \E w \in 1..MaxImgWidth : img_width = w
    /\ composed = {} /\ saved = {} /\ archived = {} /\ posted = {}
    /\ margin = TitleMargin /\ title_pos = <<0, 0>> /\ north = NoNorth
    /\ svg_size = NorthArrowSvg
    /\ font \in Fonts
    /\ font_size = MinFontSize /\ text_width = 0 /\ font_pc = "loop"
    /\ RotIdle
    /\ MsgIdle

SpecFont == InitFont /\ [][FontStep]_vars /\ WF_vars(FontStep)

(* add_north alone, for every glyph size and rotation. *)
InitNorth ==
    /\ MainIdle /\ pc = "annot_north"
    /\ \E r \in Angles \ {0}, z \in BOOLEAN :
          meta = DbMeta(<<100, 200>>, 40, r, z)
    /\ meta0 = meta
    /\ ds = NoRaster /\ bounds = << >> /\ tb_calls = {} /\ warp_gt = << >>
    /\ scale_in = R(0) /\ scale = NoScale /\ log = << >>
    /\ \E w \in ImgWidths : img_width = w
    /\ composed = {"title", "logo", "copyright"}
    /\ saved = {} /\ archived = {} /\ posted = {}
    /\ margin = IF meta.zoomed THEN TitleMargin ELSE TitleMargin + NonZoomedExtraMargin
    /\ title_pos = <<0, TitleMargin>> /\ north = NoNorth
    /\ svg_size \in GlyphSizes
    /\ FontIdle
    /\ RotIdle
    /\ MsgIdle

SpecNorth == InitNorth /\ [][AnnotNorth]_vars

(* rotate_dataset applied up to MaxCalls times to one dataset. *)
InitRot ==
    /\ MainIdle /\ pc = "rotate_calls"
    /\ meta = << >> /\ meta0 = << >>
    /\ \E g \in GeoTransforms : ds = [gt |-> g, xsize |-> 100, ysize |-> 160]
    /\ bounds = << >> /\ tb_calls = {} /\ warp_gt = << >>
    /\ scale_in = R(0) /\ scale = NoScale /\ log = << >>
    /\ AnnotIdle /\ svg_size = NorthArrowSvg
    /\ FontIdle
    /\ rot_gt0 = ds.gt /\ rot_prev = ds.gt
    /\ rot_point \in Pivots
    /\ rot_hist = << >> /\ rot_status = "ok"
    /\ MsgIdle

(* get_messages alone, for every inbox of up to MaxInbox messages. *)
InitMsgs ==
    /\ ids = << >> /\ idx = 1 /\ pc = "get_messages"
    /\ labels = << >> /\ failed_at = << >>
    /\ SceneBlank
    /\ AnnotIdle /\ svg_size = NorthArrowSvg
    /\ FontIdle
    /\ RotIdle
    /\ \E n \in 0..MaxInbox : messages \in [1..n -> Payloads]
    /\ msg_i = 1 /\ body = Unbound /\ packages = << >>

NextMsgs == GetMessagesStep \/ GetMessagesReturn

SpecMsgs == InitMsgs /\ [][NextMsgs]_vars

SpecRot == InitRot /\ [][RotateCall]_vars

---------------------------------------------------------------------------
(* Properties. *)

(* len is step * k for the integer k nearest to raw / step, a tie going to *)
(* the even k.                                                             *)
IsNearestMultiple(len, raw, step) ==
    /\ len[2] = 1
    /\ len[1] % step = 0
    /\ RLe(RAbs(RSub(raw, len)), Norm(step, 2))
    /\ (RAbs(RSub(raw, len)) = Norm(step, 2)) => ((len[1] \div step) % 2 = 0)

(* C1: once the scale bar of a side length s > 0 is computed, with         *)
(* raw = s / 5: if raw < 1000 the unit is meters and the length is the     *)
(* multiple of 50 nearest to raw; otherwise the unit is kilometers and the *)
(* length is the multiple of 1000 nearest to raw, divided by 1000.  A side *)
(* of 5000 gives 1 kilometer, 4000 gives 800 meters, 12000 gives 2         *)
(* kilometers.                                                             *)
ScaleBarRounding ==
    (scale.unit # "none") =>
        LET raw == RDiv(scale_in, R(5))
        IN  /\ RLt(raw, R(1000)) =>
                /\ scale.unit = "e"
                /\ IsNearestMultiple(scale.length, raw, 50)
            /\ ~RLt(raw, R(1000)) =>
                /\ scale.unit = "k"
                /\ IsNearestMultiple(RMul(scale.length, R(1000)), raw, 1000)
            /\ (scale_in = R(5000)) => scale = [length |-> R(1), unit |-> "k"]
            /\ (scale_in = R(4000)) => scale = [length |-> R(800), unit |-> "e"]
            /\ (scale_in = R(12000)) => scale = [length |-> R(2), unit |-> "k"]

ScaleBarAtBoundary ==
    /\ pc = "render"
    /\ scale_in = R(5000)
    /\ scale = [length |-> R(1), unit |-> "k"]

(* C2: the crop bounds of a centered crop are (minX, maxY, maxX, minY) of  *)
(* the square of the given side about the given center; center (100, 200)  *)
(* and side 40 give [80, 220, 120, 180].                                   *)
CenteredCropBounds ==
    ("size" \in DOMAIN meta0 /\ bounds # << >>) =>
        /\ RAdd(bounds[1], bounds[3]) = RMul(R(2), meta0.centerx)
        /\ RSub(bounds[3], bounds[1]) = meta0.size
        /\ RAdd(bounds[2], bounds[4]) = RMul(R(2), meta0.centery)
        /\ RSub(bounds[2], bounds[4]) = meta0.size
        /\ (meta0.centerx = R(100) /\ meta0.centery = R(200) /\ meta0.size = R(40))
              => bounds = <<R(80), R(220), R(120), R(180)>>

CenteredCropPlanned ==
    /\ "size" \in DOMAIN meta0
    /\ meta0.centerx = R(100) /\ meta0.centery = R(200) /\ meta0.size = R(40)
    /\ pc = "rotate"
    /\ bounds = <<R(80), R(220), R(120), R(180)>>

(* C3: for metadata without a side length the crop bounds are the raster's *)
(* extent [x_min, y_max, x_max, y_min], and the side length the scale bar  *)
(* reads is the raster's width x_max - x_min.                              *)
FullExtentCrop ==
    ("rotation" \in DOMAIN meta0 /\ "size" \notin DOMAIN meta0 /\ bounds # << >>) =>
        LET x_min == ds.gt[1]
            y_max == ds.gt[4]
            x_max == RAdd(x_min, RMul(ds.gt[2], R(ds.xsize)))
            y_min == RAdd(y_max, RMul(ds.gt[6], R(ds.ysize)))
        IN  /\ bounds = <<x_min, y_max, x_max, y_min>>
            /\ meta.size = RSub(x_max, x_min)
            /\ (scale.unit # "none") => scale_in = RSub(x_max, x_min)

FullExtentScaled ==
    /\ "rotation" \in DOMAIN meta0 /\ "size" \notin DOMAIN meta0
    /\ pc = "render"
    /\ scale_in = R(10000)
    /\ scale = [length |-> R(2), unit |-> "k"]

(* C4: a call of rotate_dataset with angle 0 leaves the geotransform as it *)
(* was before the call.                                                    *)
RotationIdentity ==
    (rot_hist # << >> /\ rot_hist[Len(rot_hist)] = 0) => ds.gt = rot_prev

RotatedByZero ==
    /\ rot_hist = <<0>>
    /\ rot_status = "ok"
    /\ rot_point = <<R(3), R(4)>>
    /\ ds.gt[3] # R(0)

(* C5: two calls of rotate_dataset with angles a and b about one projected *)
(* pivot give the geotransform of one call with angle a + b.               *)
RotationAdditivity ==
    (Len(rot_hist) = 2) =>
        /\ rot_status = "ok"
        /\ ds.gt = RotateDataset(rot_gt0, rot_hist[1] + rot_hist[2], rot_point).gt

(* The size the search stopped at is the smallest from MinFontSize on      *)
(* whose title width is at least a third of the image width.               *)
FontSizeIsSmallest ==
    (font_pc = "done") =>
        /\ font_size >= MinFontSize
        /\ text_width = TextWidth(font, font_size)
        /\ 3 * TextWidth(font, font_size) >= img_width
        /\ \A n \in MinFontSize..(font_size - 1) : 3 * TextWidth(font, n) < img_width

(* C6: the font size search terminates, and the size it returns is the     *)
(* smallest size from 8 on whose title width is at least a third of the    *)
(* image width (size 8 when it already meets the target).                  *)
FontSearchFindsSmallest == <>(font_pc = "done") /\ []FontSizeIsSmallest

FontSearchGrew ==
    /\ font_pc = "done"
    /\ font_size > MinFontSize
    /\ 3 * text_width = img_width

RMaxOf(S) == CHOOSE x \in S : \A y \in S : RLe(y, x)
RMinOf(S) == CHOOSE x \in S : \A y \in S : RLe(x, y)

(* The axis-aligned box of the rectangle (0,0)-(w,h) turned by deg about   *)
(* any point: the spread of its four corners.                              *)
CornerBox(w, h, deg) ==
    LET cs == CosSinDeg(deg)
        corners == {<<R(0), R(0)>>, <<R(w), R(0)>>, <<R(0), R(h)>>, <<R(w), R(h)>>}
        xs == {RSub(RMul(cs[1], p[1]), RMul(cs[2], p[2])) : p \in corners}
        ys == {RAdd(RMul(cs[2], p[1]), RMul(cs[1], p[2])) : p \in corners}
    IN  <<RSub(RMaxOf(xs), RMinOf(xs)), RSub(RMaxOf(ys), RMinOf(ys))>>

(* C7: the box add_north computes for a glyph (w, h) turned by theta is    *)
(* the axis-aligned bounding box w|cos| + h|sin| by w|sin| + h|cos|, and   *)
(* it is the box of the glyph turned by theta + 180.                       *)
NorthArrowBox ==
    (north # NoNorth) =>
        /\ north.rotated = CornerBox(svg_size[1], svg_size[2], north.rotation)
        /\ north.rotated =
             AddNorth(svg_size, north.rotation + 180, img_width, margin).rotated

NorthArrowTurned ==
    /\ north # NoNorth
    /\ north.rotation = 90
    /\ svg_size = <<2, 3>>
    /\ north.rotated = <<R(3), R(2)>>

(* C8: a scene for which some stage raised is filed as failed and main()   *)
(* goes on with the remaining messages.                                    *)
FailedSceneSkipped ==
    \A m \in DOMAIN failed_at :
        (failed_at[m] # "none") => (labels[m] = "filed_failed" /\ pc # "crashed")

RequiredComposition(m) ==
    {"title", "logo", "copyright"} \cup (IF m.rotation # 0 THEN {"north"} ELSE {})

(* C9, as stated: no annotated product of a scene that failed at any stage *)
(* is in the cropped archive or posted.                                    *)
NoProductOfFailedScene ==
    \A m \in DOMAIN failed_at :
        (failed_at[m] # "none") => (m \notin archived /\ m \notin posted)

(* C9, amended: no annotated product of a scene that failed at a stage up  *)
(* to and including add_annotations is in the cropped archive or posted,   *)
(* and an image is saved, archived or posted only with its composition     *)
(* complete.                                                               *)
NoPartialAnnotatedProduct ==
    /\ \A m \in DOMAIN failed_at :
          (failed_at[m] \notin {"none", "archive", "post_image", "post_gif"})
              => (m \notin archived /\ m \notin posted)
    /\ posted \subseteq archived
    /\ archived \subseteq saved
    /\ (idx <= Len(ids) /\ Msg \in saved) => RequiredComposition(meta) \subseteq composed

AnnotationFailedMidway ==
    /\ idx <= Len(ids)
    /\ failed_at[Msg] = "annot_north"
    /\ composed = {"title", "logo", "copyright"}
    /\ Msg \notin saved /\ Msg \notin archived /\ Msg \notin posted

(* C10: every rectangle handed to TransformBounds is in (minX, minY, maxX, *)
(* maxY) order.                                                            *)
TransformBoundsRectOrder ==
    \A c \in tb_calls : RLe(c.rect[1], c.rect[3]) /\ RLe(c.rect[2], c.rect[4])

Position(seq, x) == CHOOSE i \in 1..Len(seq) : seq[i] = x
Occurs(seq, x)   == \E i \in 1..Len(seq) : seq[i] = x

(* C11: within one scene the geotransform is rewritten only when the       *)
(* rotation is not 0, the rewrite precedes the warp, which reads the       *)
(* rewritten geotransform, and the crop bounds are computed and            *)
(* transformed before the annotation sizing starts.                        *)
StageOrdering ==
    ("rotation" \in DOMAIN meta) =>
        /\ (ds # NoRaster /\ ds \notin RasterSet) => meta.rotation # 0
        /\ Occurs(log, "rotate") <=> (ds # NoRaster /\ ds \notin RasterSet)
        /\ Occurs(log, "warp") =>
              /\ warp_gt = ds.gt
              /\ (meta.rotation # 0) =>
                    /\ Occurs(log, "rotate")
                    /\ Position(log, "rotate") < Position(log, "warp")
        /\ (font_pc # "idle") =>
              /\ Occurs(log, "bounds")
              /\ [fn |-> "gen_cropped_png", rect |-> bounds] \in tb_calls

RotatedSceneAnnotating ==
    /\ pc = "annot_font"
    /\ "rotation" \in DOMAIN meta
    /\ meta.rotation = 90
    /\ log = <<"clean", "bounds", "rotate", "warp">>
    /\ ds \notin RasterSet
    /\ warp_gt = ds.gt

(* The north arrow is on the image of exactly the rotated scenes. *)
NorthOnlyWhenRotated ==
    /\ ("north" \in composed) <=> (north # NoNorth)
    /\ (north # NoNorth) => (meta.rotation # 0 /\ Occurs(log, "rotate"))
    /\ (idx <= Len(ids) /\ Msg \in saved) =>
          (("north" \in composed) <=> (meta.rotation # 0))

(* C12, as stated: the north arrow is composited exactly when the rotation *)
(* is not 0, and pasted at (m, m), m being the margin that anchors the     *)
(* title, zoomed or not.                                                   *)
NorthAtTitleMargin ==
    /\ NorthOnlyWhenRotated
    /\ (north # NoNorth) => north.offset = <<title_pos[2], title_pos[2]>>

(* C12, amended: the north arrow is composited exactly when the rotation   *)
(* is not 0, and pasted at (m, m), m being the title's margin for a zoomed *)
(* scene and that margin enlarged by NonZoomedExtraMargin otherwise.       *)
NorthAtCurrentMargin ==
    /\ NorthOnlyWhenRotated
    /\ (north # NoNorth) =>
          /\ title_pos[2] = TitleMargin
          /\ north.offset =
                IF meta.zoomed
                THEN <<TitleMargin, TitleMargin>>
                ELSE <<TitleMargin + NonZoomedExtraMargin,
                       TitleMargin + NonZoomedExtraMargin>>

NorthPastedNonZoomed ==
    /\ pc = "annot_save"
    /\ north # NoNorth
    /\ ~meta.zoomed
    /\ title_pos[2] = 24
    /\ north.offset = <<74, 74>>

CropKeys == {"centerx", "centery", "size"}

CropFields(m) == [k \in DOMAIN m \cap CropKeys |-> m[k]]

(* The branch gen_cropped_png takes on a meta dict: the try succeeds when  *)
(* the dict has a size.                                                    *)
CropVariant(m) == IF "size" \in DOMAIN m THEN "Centered" ELSE "FullExtent"

(* C13, as stated: the crop fields stay exactly as get_img_metadata        *)
(* produced them, so gen_cropped_png would select the same variant again.  *)
CropSpecImmutable ==
    ("rotation" \in DOMAIN meta0) =>
        /\ CropFields(meta) = CropFields(meta0)
        /\ CropVariant(meta) = CropVariant(meta0)

(* C13, amended: a scene that came with a size keeps its whole meta dict   *)
(* through cropping, rotation and annotation; a scene that came without    *)
(* one keeps it until gen_cropped_png computes the bounds, which adds the  *)
(* raster's width as size and nothing else, and no center is ever added.   *)
CropSpecOnlyGainsSize ==
    ("rotation" \in DOMAIN meta0) =>
        /\ ("size" \in DOMAIN meta0) => meta = meta0
        /\ ("size" \notin DOMAIN meta0) =>
              IF Occurs(log, "bounds")
              THEN /\ DOMAIN meta = DOMAIN meta0 \cup {"size"}
                   /\ \A k \in DOMAIN meta0 : meta[k] = meta0[k]
                   /\ meta.size = RSub(bounds[3], bounds[1])
                   /\ CropVariant(meta) = "Centered"
              ELSE meta = meta0

FullExtentSceneGainedSize ==
    /\ pc = "annot_save"
    /\ "rotation" \in DOMAIN meta0
    /\ CropVariant(meta0) = "FullExtent"
    /\ CropVariant(meta) = "Centered"
    /\ "centerx" \notin DOMAIN meta

(* The pixel of a projected point under a geotransform without skew. *)
PixelOf(gt, point) ==
    <<RDiv(RSub(point[1], gt[1]), gt[2]), RDiv(RSub(point[2], gt[4]), gt[6])>>

ZeroSkew(gt) == RIsZero(gt[3]) /\ RIsZero(gt[5])

(* C14: for a geotransform with zero skew and non-zero pixel sizes, any    *)
(* angle and any projected pivot, the geotransform rotate_dataset writes   *)
(* maps the pivot's pixel to the pivot.                                    *)
PivotIsFixedPoint ==
    (Len(rot_hist) = 1 /\ rot_status = "ok" /\ ZeroSkew(rot_gt0)) =>
        AffineApply(FromGdal(ds.gt), PixelOf(rot_gt0, rot_point)) = rot_point

PivotKeptByQuarterTurn ==
    /\ rot_hist = <<90>>
    /\ rot_status = "ok"
    /\ ZeroSkew(rot_gt0)
    /\ rot_gt0[1] = R(10) /\ rot_gt0[2] = R(2) /\ rot_gt0[6] = R(-1)
    /\ rot_point = <<R(3), R(4)>>
    /\ ds.gt # rot_gt0

PivotFixedWhateverSkew ==
    (Len(rot_hist) = 1 /\ rot_status = "ok") =>
        AffineApply(FromGdal(ds.gt), PixelOf(rot_gt0, rot_point)) = rot_point

(* C15: the two lists of get_messages have one length, and the i-th URL   *)
(* was parsed from the body of the message with the i-th id, also when a   *)
(* message has neither a top-level body nor a first part with text.        *)
UrlsPairedWithOwnMessage ==
    /\ Len(packages) = Len(ids)
    /\ \A i \in 1..Len(packages) :
          /\ ids[i] \in 1..Len(messages)
          /\ OwnBody(messages[ids[i]]).bound
          /\ packages[i] = UrlSearch(OwnBody(messages[ids[i]]).text)

============================================================================
